---- MODULE Spec2Model ----
(***************************************************************************)
(* pkgtool: the terminal application state (src/src/ui/mod.rs), its        *)
(* start-up, its event loop, its command line and its read fan-out over    *)
(* the registered package managers.                                        *)
(*                                                                         *)
(* A package manager is a `Box<dyn PackageManager>`: every call on it is   *)
(* an `anyhow::Result`, so the outcome of a call is drawn from the values  *)
(* of that type (Err, or Ok of a short list).  An entry of a result list   *)
(* is written [name, source], source being the key of the manager whose    *)
(* call returned it.  Strings are sequences of one-character strings.      *)
(***************************************************************************)
EXTENDS Integers, Sequences, FiniteSets, TLC

VARIABLES
    adapters,           \* the adapters start-up tries, in the order it tries them
    pc,                 \* position of main/App::run: new, draw, read, call, hung, exit
    input_mode,         \* App::input_mode
    input,              \* App::input
    selected_tab,       \* App::selected_tab
    package_list,       \* App::package_list
    updates_available,  \* App::updates_available
    error_message,      \* App::error_message
    package_managers,   \* the keys of App::package_managers
    order,              \* the order in which package_managers.values() visits them
    op,                 \* the fan-out last started: none, search, update
    pending,            \* the managers the running fan-out loop has still to visit
    outcomes,           \* history: the outcome of each call of the fan-out last started
    initialized,        \* history: the adapters whose constructor succeeded at start-up
    run_result,         \* how main went: none (running), Ok, StartupError, DrawError,
                        \* BackendError
    clock,              \* adapter caches: the time, counted in cache operations
    cache,              \* cache[b][k]: when the entry for read k of backend b was
                        \* captured, -1 when there is none
    calling,            \* calling[b]: when the mutating call running on b began, else -1
    began,              \* history: when the mutating call that last returned on b began
    returned,           \* history: when it returned
    answer              \* history: answer[b] is the latest read of b: whether it was
                        \* answered from the cache, when its data was captured, when
                        \* it was made

appVars == <<adapters, pc, input_mode, input, selected_tab, package_list,
             updates_available, error_message, package_managers, order, op,
             pending, outcomes, initialized, run_result>>

cacheVars == <<clock, cache, calling, began, returned, answer>>

vars == <<appVars, cacheVars>>

-----------------------------------------------------------------------------
(* Bounds *)

\* most entries the model lets package_list and updates_available hold together
MaxEntries == 2

\* package names a manager may answer with
Names == {"vim", "git"}

\* the command lines typed in Editing mode (every prefix of one can be typed)
SEARCH == <<"s", "e", "a", "r", "c", "h">>
UPDATE == <<"u", "p", "d", "a", "t", "e">>
CommandLines == { SEARCH \o <<" ", "v">>, UPDATE, <<"q">>, <<" ">> }

\* the adapter caches stop taking operations at this time
MaxClock == 5

\* the characters a key event may carry
Chars == {"s", "e", "a", "r", "c", "h", " ", "v", "u", "p", "d", "t", "q"}

-----------------------------------------------------------------------------
(* The adapters *)

\* ui/mod.rs:58-60: start-up tries AptManager and nothing else
AptOnly == <<"apt">>

\* ui/mod.rs:62 "Add other package managers similarly", applied to the second
\* manager package_managers/mod.rs exports
AptAndPacman == <<"apt", "pacman">>

Range(s) == {s[i] : i \in 1..Len(s)}

Perms(S) == {s \in [1..Cardinality(S) -> S] : Range(s) = S}

IsPrefix(s, t) == Len(s) <= Len(t) /\ SubSeq(t, 1, Len(s)) = s

Typeable(s) == \E l \in CommandLines : IsPrefix(s, l)

-----------------------------------------------------------------------------
(* App::new and App::initialize_package_managers *)

\* a registration that inserts the manager whether or not its constructor failed
RegisterAlways(reg, key, ok) == reg \cup {key}

\* `if let Ok(m) = Manager::new().await { self.package_managers.insert(key, m) }`
Register(reg, key, ok) == IF ok THEN reg \cup {key} ELSE reg

\* the body of initialize_package_managers: one such statement per adapter
RECURSIVE InitializePackageManagers(_, _, _)
InitializePackageManagers(tried, okset, reg) ==
    IF tried = <<>> THEN reg
    ELSE InitializePackageManagers(Tail(tried), okset,
                                   Register(reg, Head(tried), Head(tried) \in okset))

\* initialize_package_managers ends `Ok(())` whatever it registered, so
\* `app.initialize_package_managers().await?` never leaves App::new early
AppNewResult(reg) == "Ok"

New ==
    /\ pc = "new"
    /\ \E okset \in SUBSET Range(adapters) :
         LET reg == InitializePackageManagers(adapters, okset, {}) IN
         \E ord \in Perms(reg) :
           /\ package_managers' = reg
           /\ order' = ord
           /\ initialized' = okset
           /\ pc' = IF AppNewResult(reg) = "Ok" THEN "draw" ELSE "exit"
           /\ run_result' = IF AppNewResult(reg) = "Ok" THEN run_result
                                                          ELSE "StartupError"
    /\ UNCHANGED <<adapters, input_mode, input, selected_tab, package_list,
                   updates_available, error_message, op, pending, outcomes>>
    /\ UNCHANGED cacheVars

-----------------------------------------------------------------------------
(* App::run *)

\* `terminal.draw(|f| self.render(f))?` succeeded
Draw ==
    /\ pc = "draw"
    /\ pc' = "read"
    /\ UNCHANGED <<adapters, input_mode, input, selected_tab, package_list,
                   updates_available, error_message, package_managers, order, op,
                   pending, outcomes, initialized, run_result>>
    /\ UNCHANGED cacheVars

\* `terminal.draw(..)?` failed: run returns the error
DrawFails ==
    /\ pc = "draw"
    /\ pc' = "exit"
    /\ run_result' = "DrawError"
    /\ UNCHANGED <<adapters, input_mode, input, selected_tab, package_list,
                   updates_available, error_message, package_managers, order, op,
                   pending, outcomes, initialized>>
    /\ UNCHANGED cacheVars

\* event::read() failed, or gave an event that is no key: the loop goes round
ReadOther ==
    /\ pc = "read"
    /\ pc' = "draw"
    /\ UNCHANGED <<adapters, input_mode, input, selected_tab, package_list,
                   updates_available, error_message, package_managers, order, op,
                   pending, outcomes, initialized, run_result>>
    /\ UNCHANGED cacheVars

-----------------------------------------------------------------------------
(* App::handle_key_event, Normal mode *)

\* op and outcomes record the calls made while the latest key was handled:
\* a key whose handling calls no manager leaves the record empty
NoCalls == op' = "none" /\ outcomes' = <<>>

\* Char('q'): Ok(false), and run breaks out of its loop
KeyNormalQuit ==
    /\ pc = "read" /\ input_mode = "Normal"
    /\ pc' = "exit"
    /\ run_result' = "Ok"
    /\ NoCalls
    /\ UNCHANGED <<adapters, input_mode, input, selected_tab, package_list,
                   updates_available, error_message, package_managers, order,
                   pending, initialized>>
    /\ UNCHANGED cacheVars

\* Char('e')
KeyNormalEdit ==
    /\ pc = "read" /\ input_mode = "Normal"
    /\ input_mode' = "Editing"
    /\ pc' = "draw"
    /\ NoCalls
    /\ UNCHANGED <<adapters, input, selected_tab, package_list,
                   updates_available, error_message, package_managers, order,
                   pending, initialized, run_result>>
    /\ UNCHANGED cacheVars

\* a tab step that does not wrap
NextTabNoWrap(t) == t + 1

NextTab(t) == (t + 1) % 3

\* Tab
KeyNormalTab ==
    /\ pc = "read" /\ input_mode = "Normal"
    /\ selected_tab' = NextTab(selected_tab)
    /\ pc' = "draw"
    /\ NoCalls
    /\ UNCHANGED <<adapters, input_mode, input, package_list,
                   updates_available, error_message, package_managers, order,
                   pending, initialized, run_result>>
    /\ UNCHANGED cacheVars

\* a key handler that takes a character before looking at the mode
KeyNormalOtherTypes ==
    /\ pc = "read" /\ input_mode = "Normal"
    /\ \E c \in Chars :
         /\ Typeable(Append(input, c))
         /\ input' = Append(input, c)
    /\ pc' = "draw"
    /\ NoCalls
    /\ UNCHANGED <<adapters, input_mode, selected_tab, package_list,
                   updates_available, error_message, package_managers, order,
                   pending, initialized, run_result>>
    /\ UNCHANGED cacheVars

\* a key that runs the discovery of start-up again
KeyNormalOtherRediscovers ==
    /\ pc = "read" /\ input_mode = "Normal"
    /\ pc' = "draw"
    /\ NoCalls
    /\ \E okset \in SUBSET Range(adapters) :
         /\ package_managers' = InitializePackageManagers(adapters, okset, {})
         /\ order' \in Perms(package_managers')
    /\ UNCHANGED <<adapters, input_mode, input, selected_tab, package_list,
                   updates_available, error_message,
                   pending, initialized, run_result>>
    /\ UNCHANGED cacheVars

\* any other key
KeyNormalOther ==
    /\ pc = "read" /\ input_mode = "Normal"
    /\ pc' = "draw"
    /\ NoCalls
    /\ UNCHANGED <<adapters, input_mode, input, selected_tab, package_list,
                   updates_available, error_message, package_managers, order,
                   pending, initialized, run_result>>
    /\ UNCHANGED cacheVars

-----------------------------------------------------------------------------
(* App::handle_key_event, Editing mode *)

\* a handler that takes 'q' as quit before it looks at the mode
KeyEditCharQuits ==
    /\ pc = "read" /\ input_mode = "Editing"
    /\ \E c \in Chars :
         IF c = "q"
         THEN /\ pc' = "exit"
              /\ run_result' = "Ok"
              /\ UNCHANGED input
         ELSE /\ Typeable(Append(input, c))
              /\ input' = Append(input, c)
              /\ pc' = "draw"
              /\ UNCHANGED run_result
    /\ NoCalls
    /\ UNCHANGED <<adapters, input_mode, selected_tab, package_list,
                   updates_available, error_message, package_managers, order,
                   pending, initialized>>
    /\ UNCHANGED cacheVars

\* Char(c): self.input.push(c)
KeyEditChar ==
    /\ pc = "read" /\ input_mode = "Editing"
    /\ \E c \in Chars :
         /\ Typeable(Append(input, c))
         /\ input' = Append(input, c)
    /\ pc' = "draw"
    /\ NoCalls
    /\ UNCHANGED <<adapters, input_mode, selected_tab, package_list,
                   updates_available, error_message, package_managers, order,
                   pending, initialized, run_result>>
    /\ UNCHANGED cacheVars

\* String::pop: removes the last character, if there is one
Pop(s) == IF s = <<>> THEN s ELSE SubSeq(s, 1, Len(s) - 1)

\* Backspace
KeyEditBackspace ==
    /\ pc = "read" /\ input_mode = "Editing"
    /\ input' = Pop(input)
    /\ pc' = "draw"
    /\ NoCalls
    /\ UNCHANGED <<adapters, input_mode, selected_tab, package_list,
                   updates_available, error_message, package_managers, order,
                   pending, initialized, run_result>>
    /\ UNCHANGED cacheVars

\* Esc
KeyEditEsc ==
    /\ pc = "read" /\ input_mode = "Editing"
    /\ input_mode' = "Normal"
    /\ pc' = "draw"
    /\ NoCalls
    /\ UNCHANGED <<adapters, input, selected_tab, package_list,
                   updates_available, error_message, package_managers, order,
                   pending, initialized, run_result>>
    /\ UNCHANGED cacheVars

\* any other key
KeyEditOther ==
    /\ pc = "read" /\ input_mode = "Editing"
    /\ pc' = "draw"
    /\ NoCalls
    /\ UNCHANGED <<adapters, input_mode, input, selected_tab, package_list,
                   updates_available, error_message, package_managers, order,
                   pending, initialized, run_result>>
    /\ UNCHANGED cacheVars

-----------------------------------------------------------------------------
(* App::handle_input *)

\* str::split_whitespace: the maximal runs of characters that are no space
RECURSIVE Split(_, _, _)
Split(s, cur, acc) ==
    IF s = <<>> THEN (IF cur = <<>> THEN acc ELSE Append(acc, cur))
    ELSE IF Head(s) = " "
         THEN Split(Tail(s), <<>>, IF cur = <<>> THEN acc ELSE Append(acc, cur))
         ELSE Split(Tail(s), Append(cur, Head(s)), acc)

SplitWhitespace(s) == Split(s, <<>>, <<>>)

\* a parse that searches for the empty string when the query is missing
CommandDefaultQuery(parts) ==
    IF parts = <<>> THEN "none"
    ELSE IF parts[1] = SEARCH THEN "search"
    ELSE IF parts[1] = UPDATE THEN "update"
    ELSE "unknown"

\* what handle_input does with the words of the line:
\*   search  - search_packages(parts[1])     update - update_system()
\*   unknown - error_message is set          none   - nothing
Command(parts) ==
    IF parts = <<>> THEN "none"
    ELSE IF parts[1] = SEARCH THEN (IF Len(parts) >= 2 THEN "search" ELSE "none")
    ELSE IF parts[1] = UPDATE THEN "update"
    ELSE "unknown"

-----------------------------------------------------------------------------
(* App::search_packages and App::update_system *)

\* a fan-out that visits every adapter start-up tried, registered or not
ValuesOfTried(ord) == adapters

\* `self.package_managers.values()`: the map's iteration order
Values(ord) == ord

\* the lists a call on manager m may answer with, at most `room` entries long
Answers(m, room) ==
    UNION {[1..n -> {[name |-> x, source |-> m] : x \in Names}] : n \in 0..room}

\* the values of `anyhow::Result<Vec<_>>` a call on manager m may return
CallOutcomes(m, room) ==
    {[mgr |-> m, ok |-> FALSE, pkgs |-> <<>>]}
      \cup {[mgr |-> m, ok |-> TRUE, pkgs |-> a] : a \in Answers(m, room)}

\* `if let Ok(found) = call.await { list.extend(found) }`
Extend(list, o) == IF o.ok THEN list \o o.pkgs ELSE list

\* a loop that `?`-returns at the first failing call
RemainingUntilError(o, rest) == IF o.ok THEN rest ELSE <<>>

\* a loop that returns after its first manager's call
RemainingNone(o, rest) == <<>>

\* the managers the loop goes on to after a call's outcome: the loop body has
\* no `?`, `break` or `return`
Remaining(o, rest) == rest

\* entries the lists can still take before the model's bound
Room == MaxEntries - Len(package_list) - Len(updates_available)

\* a fan-out that hands a manager's error to its caller
FanOutResultPropagates(outs) ==
    IF \E i \in 1..Len(outs) : ~outs[i].ok THEN "Err" ELSE "Ok"

\* what search_packages / update_system return once the loop is over: the
\* last statement of both is `Ok(())`
FanOutResult(outs) == "Ok"

\* handle_input has returned r to `self.handle_input().await?`: on Ok the
\* Enter arm clears the line and goes back to Normal mode, on Err the `?`s of
\* handle_key_event and run hand the error to main
Returned(r) ==
    IF r = "Ok"
    THEN /\ pc' = "draw"
         /\ input' = <<>>
         /\ input_mode' = "Normal"
         /\ UNCHANGED run_result
    ELSE /\ pc' = "exit"
         /\ run_result' = "BackendError"
         /\ UNCHANGED <<input, input_mode>>

\* the list a fan-out writes: search_packages package_list, update_system
\* updates_available
Target(kind) == IF kind = "search" THEN package_list ELSE updates_available

\* Enter: handle_input, then input.clear() and input_mode = Normal.  A search
\* or update over a map that has managers stops at the first manager's call.
KeyEditEnter ==
    /\ pc = "read" /\ input_mode = "Editing"
    /\ LET cmd == Command(SplitWhitespace(input))
           calls == IF cmd \in {"search", "update"} THEN Values(order) ELSE <<>>
       IN
       /\ op' = IF cmd \in {"search", "update"} THEN cmd ELSE "none"
       /\ outcomes' = <<>>
       /\ pending' = calls
       /\ error_message' = IF cmd = "unknown" THEN "Unknown command" ELSE error_message
       /\ IF calls # <<>>
          THEN /\ pc' = "call"
               /\ UNCHANGED <<input, input_mode, run_result>>
          ELSE Returned(IF cmd \in {"search", "update"} THEN FanOutResult(<<>>)
                                                        ELSE "Ok")
    /\ UNCHANGED <<adapters, selected_tab, package_list, updates_available,
                   package_managers, order, initialized>>
    /\ UNCHANGED cacheVars

\* the call the loop is waiting for returns; after the last manager's call
\* the fan-out returns Ok(()), and so does handle_input, and Enter finishes
BackendReturns ==
    /\ pc = "call"
    /\ \E o \in CallOutcomes(Head(pending), Room) :
         LET rest == Remaining(o, Tail(pending)) IN
         /\ IF op = "search"
            THEN /\ package_list' = Extend(package_list, o)
                 /\ UNCHANGED updates_available
            ELSE /\ updates_available' = Extend(updates_available, o)
                 /\ UNCHANGED package_list
         /\ outcomes' = Append(outcomes, o)
         /\ pending' = rest
         /\ IF rest = <<>>
            THEN Returned(FanOutResult(Append(outcomes, o)))
            ELSE UNCHANGED <<pc, input, input_mode, run_result>>
    /\ UNCHANGED <<adapters, selected_tab, error_message, package_managers, order,
                   op, initialized>>
    /\ UNCHANGED cacheVars

\* the call the loop is waiting for never returns: nothing bounds the await
BackendHangs ==
    /\ pc = "call"
    /\ pc' = "hung"
    /\ UNCHANGED <<adapters, input_mode, input, selected_tab, package_list,
                   updates_available, error_message, package_managers, order, op,
                   pending, outcomes, initialized, run_result>>
    /\ UNCHANGED cacheVars

-----------------------------------------------------------------------------
(* The adapters' result caches.  AptManager declares `cache: PackageCache`  *)
(* and the trait declares install, remove and update_system; their code    *)
(* and the cache's are not in the source, and are modelled on the design   *)
(* document: a per-backend cache of read results, entries dropped by       *)
(* time-to-live expiry, and every entry of a backend purged when a         *)
(* mutating call on it begins and again before it returns.                 *)

Backends == Range(adapters)

ReadKinds == {"search", "get_updates"}

MutatingKinds == {"install", "remove", "update_system"}

\* a purge that drops nothing
PurgeNothing(entries) == entries

\* all of a backend's entries are dropped
Purge(entries) == [k \in ReadKinds |-> -1]

\* search / get_updates on backend b: answered from the cache entry when
\* there is one, else computed and cached
CachedRead ==
    /\ clock < MaxClock
    /\ clock' = clock + 1
    /\ \E b \in Backends, k \in ReadKinds :
         IF cache[b][k] # -1
         THEN /\ answer' = [answer EXCEPT ![b] =
                               [cached |-> TRUE, at |-> cache[b][k], time |-> clock']]
              /\ UNCHANGED cache
         ELSE /\ answer' = [answer EXCEPT ![b] =
                               [cached |-> FALSE, at |-> clock', time |-> clock']]
              /\ cache' = [cache EXCEPT ![b][k] = clock']
    /\ UNCHANGED <<calling, began, returned>>
    /\ UNCHANGED appVars

\* an entry's time-to-live runs out
Expire ==
    /\ \E b \in Backends, k \in ReadKinds :
         /\ cache[b][k] # -1
         /\ cache' = [cache EXCEPT ![b][k] = -1]
    /\ UNCHANGED <<clock, calling, began, returned, answer>>
    /\ UNCHANGED appVars

\* install / remove / update_system on backend b begins: b's entries are
\* purged before the call proceeds
MutateBegin ==
    /\ clock < MaxClock
    /\ clock' = clock + 1
    /\ \E b \in Backends, m \in MutatingKinds :
         /\ calling[b] = -1
         /\ calling' = [calling EXCEPT ![b] = clock']
         /\ cache' = [cache EXCEPT ![b] = Purge(cache[b])]
    /\ UNCHANGED <<began, returned, answer>>
    /\ UNCHANGED appVars

\* the call returns, with success or with failure: b's entries are purged
\* before it does
MutateReturn ==
    /\ clock < MaxClock
    /\ clock' = clock + 1
    /\ \E b \in Backends, ok \in BOOLEAN :
         /\ calling[b] # -1
         /\ cache' = [cache EXCEPT ![b] = Purge(cache[b])]
         /\ began' = [began EXCEPT ![b] = calling[b]]
         /\ returned' = [returned EXCEPT ![b] = clock']
         /\ calling' = [calling EXCEPT ![b] = -1]
    /\ UNCHANGED answer
    /\ UNCHANGED appVars

InitCache ==
    /\ clock = 0
    /\ cache = [b \in {"apt", "pacman"} |-> [k \in ReadKinds |-> -1]]
    /\ calling = [b \in {"apt", "pacman"} |-> -1]
    /\ began = [b \in {"apt", "pacman"} |-> -1]
    /\ returned = [b \in {"apt", "pacman"} |-> -1]
    /\ answer = [b \in {"apt", "pacman"} |-> [cached |-> FALSE, at |-> -1, time |-> -1]]

NextCache ==
    \/ CachedRead
    \/ Expire
    \/ MutateBegin
    \/ MutateReturn

-----------------------------------------------------------------------------
(* Specifications *)

InitApp ==
    /\ pc = "new"
    /\ input_mode = "Normal"
    /\ input = <<>>
    /\ selected_tab = 0
    /\ package_list = <<>>
    /\ updates_available = <<>>
    /\ error_message = "None"
    /\ package_managers = {}
    /\ order = <<>>
    /\ op = "none"
    /\ pending = <<>>
    /\ outcomes = <<>>
    /\ initialized = {}
    /\ run_result = "none"

Init == adapters = AptOnly /\ InitApp /\ InitCache

InitAll == adapters = AptAndPacman /\ InitApp /\ InitCache

Next ==
    \/ New
    \/ Draw
    \/ DrawFails
    \/ ReadOther
    \/ KeyNormalQuit
    \/ KeyNormalEdit
    \/ KeyNormalTab
    \/ KeyNormalOther
    \/ KeyEditChar
    \/ KeyEditBackspace
    \/ KeyEditEsc
    \/ KeyEditOther
    \/ KeyEditEnter
    \/ BackendReturns
    \/ BackendHangs

\* the program as written: AptManager is the one adapter start-up tries
Spec == Init /\ [][Next]_vars

\* the program with a second adapter registered the way the first is
SpecAll == InitAll /\ [][Next]_vars

\* the caches of the two adapters under reads, expiry and mutating calls
SpecCache == InitAll /\ [][NextCache]_vars

\* every step the program can take, it takes
FairSpec == Init /\ [][Next]_vars /\ WF_vars(Next)

TypeOK ==
    /\ pc \in {"new", "draw", "read", "call", "hung", "exit"}
    /\ input_mode \in {"Normal", "Editing"}
    /\ Typeable(input)
    /\ selected_tab \in 0..2
    /\ Len(package_list) + Len(updates_available) <= MaxEntries
    /\ error_message \in {"None", "Unknown command"}
    /\ package_managers \subseteq Range(adapters)
    /\ Range(order) = package_managers
    /\ op \in {"none", "search", "update"}
    /\ run_result \in {"none", "Ok", "StartupError", "DrawError", "BackendError"}

-----------------------------------------------------------------------------
(* Vocabulary of the properties *)

\* the key last handled made a fan-out, and the fan-out has returned
Completed == op # "none" /\ pc \notin {"call", "hung"}

\* the fan-out over a map with managers is waiting for a call
InCall == pc = "call"

Failed == {outcomes[i].mgr : i \in {j \in 1..Len(outcomes) : ~outcomes[j].ok}}

Succeeded == {outcomes[i].mgr : i \in {j \in 1..Len(outcomes) : outcomes[j].ok}}

\* the successful answers of the fan-out, in the order the calls were made
RECURSIVE Concat(_)
Concat(outs) ==
    IF outs = <<>> THEN <<>>
    ELSE (IF Head(outs).ok THEN Head(outs).pkgs ELSE <<>>) \o Concat(Tail(outs))

\* sub occurs in list as a run of consecutive entries
OccursIn(sub, list) ==
    \E k \in 0..(Len(list) - Len(sub)) : SubSeq(list, k + 1, k + Len(sub)) = sub

NoDuplicates(list) ==
    \A i, j \in 1..Len(list) : list[i] = list[j] => i = j

\* position of adapter m in the order start-up registers them
RegistrationIndex(m) == CHOOSE i \in 1..Len(adapters) : adapters[i] = m

InRegistrationOrder(list) ==
    \A i, j \in 1..Len(list) :
        i < j => RegistrationIndex(list[i].source) <= RegistrationIndex(list[j].source)

\* The managers a caller of search_packages / update_system can tell have
\* failed: both return the unit value `Ok(())`, and neither writes
\* error_message or any other field but its list, so the caller is told of none.
FailureRecord == {}

-----------------------------------------------------------------------------
(* Properties *)

\* C1: a read fan-out in which a manager's call fails is not aborted: every
\* manager of the registry is still called, the fan-out returns Ok, and every
\* list a successful call returned is part of the list the fan-out wrote.
C1_FailureDoesNotAbort ==
    Completed =>
        /\ [i \in 1..Len(outcomes) |-> outcomes[i].mgr] = order
        /\ run_result # "BackendError"
        /\ \A i \in 1..Len(outcomes) :
             outcomes[i].ok => OccursIn(outcomes[i].pkgs, Target(op))

\* a completed fan-out in which one manager failed and another answered
C1_Witness ==
    /\ Completed
    /\ Failed # {}
    /\ \E i \in 1..Len(outcomes) : outcomes[i].ok /\ outcomes[i].pkgs # <<>>

\* C2: after a read fan-out the failure record the caller sees names exactly
\* the managers whose call failed.
C2_FailuresSurfaced == Completed => FailureRecord = Failed

\* C3: package_list and updates_available never hold two entries with the
\* same (name, source) pair.
C3_NoDuplicatePairs == NoDuplicates(package_list) /\ NoDuplicates(updates_available)

\* C4: the list a read fan-out produces is in registration order: entries of
\* a manager registered earlier come before those of one registered later.
\* (Stated for a fan-out whose list holds this fan-out's answers only.)
C4_RegistrationOrder ==
    (Completed /\ Target(op) = Concat(outcomes)) => InRegistrationOrder(Target(op))

\* C5: after a search completes, package_list is the concatenation of the
\* lists that search's successful calls returned, with nothing of an earlier
\* search in it.
C5_OnlyThisRequest ==
    (Completed /\ op = "search") => package_list = Concat(outcomes)

\* C6: the application is never running with an empty registry: start-up
\* fails when no adapter initializes.
C6_NoBackendsIsFatal ==
    pc \in {"draw", "read", "call", "hung"} => package_managers # {}

\* C7: once start-up is over the registry holds exactly the adapters that
\* initialized, and an adapter that failed did not make start-up fail.
C7_RegistryIsInitialized ==
    pc # "new" =>
        /\ package_managers = initialized
        /\ run_result # "StartupError"

\* start-up is over, one adapter failed to initialize and the other is registered
C7_Witness ==
    /\ pc = "draw"
    /\ initialized # {}
    /\ Range(adapters) \ initialized # {}
    /\ package_managers = initialized

\* C8: every entry of package_list and updates_available comes from a
\* manager that is registered, never from an adapter that failed to initialize.
C8_SourcesAreRegistered ==
    \A e \in Range(package_list) \cup Range(updates_available) :
        e.source \in package_managers /\ e.source \in initialized

\* a fan-out has put an entry in a list
C8_Witness ==
    /\ Completed
    /\ Range(package_list) \cup Range(updates_available) # {}

\* C9: a read of backend b made after a mutating call on b has returned is
\* never answered from a cache entry captured before that call began, whether
\* the call succeeded or failed; and a mutating call on b leaves the cache
\* entries of every other backend as they were.
C9_NoStaleReadAfterMutation ==
    /\ [](\A b \in Backends :
            (answer[b].cached /\ returned[b] # -1 /\ answer[b].time > returned[b])
                => answer[b].at >= began[b])
    /\ [][\A b \in Backends :
            (calling'[b] # calling[b]) =>
                \A c \in Backends \ {b} : cache'[c] = cache[c]]_vars

\* after a mutating call on apt returned, a read of apt was answered from the
\* cache, while pacman still holds an entry captured before that call began
C9_Witness ==
    /\ returned["apt"] # -1
    /\ answer["apt"].cached
    /\ answer["apt"].time > returned["apt"]
    /\ \E k \in ReadKinds : cache["pacman"][k] # -1 /\ cache["pacman"][k] < began["apt"]

\* C10: a read fan-out that is waiting for a call always comes to an end,
\* also when the call never returns.
C10_FanOutCompletes == InCall ~> Completed

\* handle_key_event takes a key, in either mode
HandleKeyEvent ==
    \/ KeyNormalQuit \/ KeyNormalEdit \/ KeyNormalTab \/ KeyNormalOther
    \/ KeyEditChar \/ KeyEditBackspace \/ KeyEditEsc \/ KeyEditOther \/ KeyEditEnter

\* C11: while a manager's call is outstanding the UI still handles a key
\* event and still renders.
C11_KeysHandledDuringCall == InCall => (ENABLED HandleKeyEvent /\ ENABLED Draw)

\* C12: no render sees the list of a fan-out that has not yet had the outcome
\* of every registered manager: whenever the frame can be drawn, no call is
\* pending and the fan-out of the latest key has an outcome for each manager.
C12_RenderAfterAllOutcomes ==
    ENABLED Draw =>
        /\ pending = <<>>
        /\ op # "none" => [i \in 1..Len(outcomes) |-> outcomes[i].mgr] = order

\* the frame is about to be drawn after a fan-out over two managers, both of
\* which have answered or failed
C12_Witness ==
    /\ ENABLED Draw
    /\ op # "none"
    /\ Len(outcomes) = 2
    /\ Len(order) = 2

\* C13: once start-up is over no step adds, removes or reorders a manager
\* of the registry.
C13_RegistryFixed ==
    [][pc # "new" => (package_managers' = package_managers /\ order' = order)]_vars

\* a session in which a search has answered, an unknown command was entered
\* and the tab was changed, with the manager still registered
C13_Witness ==
    /\ package_managers # {}
    /\ package_list # <<>>
    /\ error_message = "Unknown command"
    /\ selected_tab # 0
    /\ input_mode = "Editing"

\* C14: update_system is idempotent: invoked again when the managers answer
\* what they answered before (updates_available is what the first invocation
\* made of those answers), it succeeds and leaves updates_available as it was.
C14_UpdateIdempotent ==
    [][(/\ pc = "call" /\ op = "update"
        /\ pc' \notin {"call", "hung"}
        /\ Concat(outcomes') = updates_available)
          => (run_result' # "BackendError" /\ updates_available' = updates_available)]_vars

\* the Enter key's handling comes to its end: at once, or when the last
\* manager's call has returned
EnterEnds == (KeyEditEnter \/ BackendReturns) /\ pc' \notin {"call", "hung"}

\* C15: in Normal mode no key changes the command buffer or starts a manager
\* call; the mode goes from Normal to Editing only by the 'e' key and from
\* Editing to Normal only by Esc or by the end of Enter's handling.
C15_EditingOnlyInEditingMode ==
    [][/\ input_mode = "Normal" => (input' = input /\ pc' # "call")
       /\ (input_mode = "Normal" /\ input_mode' = "Editing") => KeyNormalEdit
       /\ (input_mode = "Editing" /\ input_mode' = "Normal") => (KeyEditEsc \/ EnterEnds)
       /\ input' # input => (KeyEditChar \/ KeyEditBackspace \/ EnterEnds)]_vars

\* back in Normal mode by Esc with text in the buffer, and a Normal-mode key
\* (Tab) has been handled since
C15_Witness ==
    /\ input_mode = "Normal"
    /\ input # <<>>
    /\ selected_tab # 0
    /\ pc = "draw"

\* C16: Enter on a line whose first word is neither `search` nor `update`
\* sets error_message to "Unknown command", calls no manager, leaves both
\* lists as they were and does not end the application; Enter on a line with
\* no word, or with the one word `search`, calls no manager and leaves
\* error_message as it was.
C16_UnknownAndEmptyCommands ==
    [][KeyEditEnter =>
         LET w == SplitWhitespace(input) IN
         /\ (w # <<>> /\ w[1] \notin {SEARCH, UPDATE}) =>
               /\ error_message' = "Unknown command"
               /\ pc' = "draw"
               /\ run_result' = "none"
               /\ package_list' = package_list
               /\ updates_available' = updates_available
         /\ (w = <<>> \/ w = <<SEARCH>>) =>
               /\ error_message' = error_message
               /\ pc' = "draw"
               /\ package_list' = package_list
               /\ updates_available' = updates_available]_vars

\* an unknown command has been handled in a session whose lists hold entries,
\* and the application is still running
C16_Witness ==
    /\ error_message = "Unknown command"
    /\ package_list # <<>>
    /\ updates_available # <<>>
    /\ pc = "draw"
    /\ input = <<>>
    /\ input_mode = "Normal"
    /\ op = "none"

\* C17: whenever the handling of Enter comes to its end, whatever the line
\* was and whichever managers answered or failed, the mode is Normal and the
\* command buffer is empty.
C17_EnterClearsAndLeaves ==
    [][EnterEnds => (input' = <<>> /\ input_mode' = "Normal" /\ pc' = "draw")]_vars

\* Enter on a line that made a fan-out in which a manager failed has ended
C17_Witness ==
    /\ Completed
    /\ Failed # {}
    /\ pc = "draw"
    /\ input = <<>>
    /\ input_mode = "Normal"

\* C18: selected_tab is always 0, 1 or 2; it changes only by the Tab key in
\* Normal mode, which moves it one tab on, cyclically.
C18_TabInRange ==
    /\ [](selected_tab \in {0, 1, 2})
    /\ [][selected_tab' # selected_tab =>
            /\ KeyNormalTab
            /\ input_mode = "Normal"
            /\ selected_tab' = IF selected_tab = 2 THEN 0 ELSE selected_tab + 1]_vars

\* the last tab is selected and keys have since been typed in Editing mode
C18_Witness ==
    /\ selected_tab = 2
    /\ input_mode = "Editing"
    /\ input # <<>>

\* C19 as first stated: the event loop stops only when 'q' is pressed in
\* Normal mode.
C19_StopsOnlyOnQuit ==
    [][(pc # "exit" /\ pc' = "exit") => KeyNormalQuit]_vars

\* C19: the event loop stops only when 'q' is pressed in Normal mode or when
\* drawing the frame fails; a character typed in Editing mode, 'q' included,
\* is appended to the buffer and the loop goes on, and the end of a command
\* (unknown, or with failing managers) does not stop the loop.
C19_StopsOnQuitOrDrawError ==
    [][/\ (pc # "exit" /\ pc' = "exit") => (KeyNormalQuit \/ DrawFails)
       /\ (pc = "read" /\ input_mode = "Editing" /\ input' = Append(input, "q"))
             => (pc' = "draw" /\ run_result' = "none")
       /\ EnterEnds => (pc' = "draw" /\ run_result' = "none")]_vars

\* 'q' has been typed into the buffer after an unknown command, and the
\* application is still running
C19_Witness ==
    /\ input = <<"q">>
    /\ input_mode = "Editing"
    /\ error_message = "Unknown command"
    /\ pc = "draw"
    /\ run_result = "none"

====
